---------------------------- MODULE Spec2Model ----------------------------
(***************************************************************************)
(* Model of the fire-extinguisher vision core: the target clusterer        *)
(* (determineSprayTargets), the aim-angle resolver (calculateGimbalAngles),*)
(* the projection helpers and the polling loop of main().                  *)
(*                                                                         *)
(* Numbers.  float and double values are modelled as exact rationals       *)
(* <<n, d>> in lowest terms with d > 0; <<1, 0>> is +infinity, <<-1, 0>>   *)
(* is -infinity and <<0, 0>> is NaN, the results of an IEEE division by    *)
(* zero.  The rounding of float arithmetic is abstracted: every operation  *)
(* yields the exact value.                                                 *)
(***************************************************************************)
EXTENDS Integers, Sequences, FiniteSets, TLC

VARIABLES
    pc,                     \* position of the process being modelled
    hot_spots,              \* std::vector<HotSpot> handed to / left by the clusterer
    max_grouping_distance,  \* max_grouping_distance_param
    spray_targets,          \* std::vector<SprayTarget> returned by the clusterer
    gimbal_args,            \* the nine arguments of calculateGimbalAngles
    angles,                 \* CloudGimbalAngles returned by calculateGimbalAngles
    params,                 \* CameraParams of main(), after loadCameraParameters
    temperature_matrix,     \* the frame of the current polling iteration
    console                 \* what the current iteration wrote to cout / cerr

clusterVars == <<hot_spots, max_grouping_distance, spray_targets>>
gimbalVars == <<gimbal_args, angles>>
mainVars == <<params, temperature_matrix, console>>
vars == <<pc, hot_spots, max_grouping_distance, spray_targets, gimbal_args, angles,
          params, temperature_matrix, console>>

---------------------------------------------------------------------------
(* Exact rational arithmetic standing for float / double arithmetic.       *)

Abs(x) == IF x < 0 THEN -x ELSE x

RECURSIVE GCD(_, _)
GCD(a, b) == IF b = 0 THEN a ELSE GCD(b, a % b)

Norm(n, d) ==
    IF d = 1 THEN <<n, 1>>
    ELSE IF d = 0 THEN <<IF n > 0 THEN 1 ELSE IF n < 0 THEN -1 ELSE 0, 0>>
    ELSE LET s == IF d < 0 THEN -1 ELSE 1
             g == GCD(Abs(n), Abs(d))
         IN <<(s * n) \div g, (s * d) \div g>>

R(n) == <<n, 1>>
Zero == R(0)
One == R(1)
INFINITY == <<1, 0>>

RAdd(a, b) == Norm(a[1] * b[2] + b[1] * a[2], a[2] * b[2])
RSub(a, b) == Norm(a[1] * b[2] - b[1] * a[2], a[2] * b[2])
RMul(a, b) == Norm(a[1] * b[1], a[2] * b[2])
RDiv(a, b) == Norm(a[1] * b[2], a[2] * b[1])
RLt(a, b) == a[1] * b[2] < b[1] * a[2]
RLe(a, b) == a[1] * b[2] <= b[1] * a[2]
RGt(a, b) == RLt(b, a)

\* std::sqrt on the perfect squares the model's coordinates produce
ISqrt(n) == CHOOSE r \in 0..n : r * r = n
RSqrt(q) == <<ISqrt(q[1]), ISqrt(q[2])>>

\* cv::Point2f / cv::Point3f arithmetic
P2Add(p, q) == <<RAdd(p[1], q[1]), RAdd(p[2], q[2])>>
P2Scale(p, k) == <<RMul(p[1], k), RMul(p[2], k)>>
P3Add(p, q) == <<RAdd(p[1], q[1]), RAdd(p[2], q[2]), RAdd(p[3], q[3])>>
P3Scale(p, k) == <<RMul(p[1], k), RMul(p[2], k), RMul(p[3], k)>>
P3Origin == <<Zero, Zero, Zero>>

\* FLT_MAX: the largest finite value (the largest integer of the checker
\* stands for 3.4e38; every finite distance of the model lies below it).
FLT_MAX == <<2147483647, 1>>

---------------------------------------------------------------------------
(* Projection utility (main.cpp).                                          *)

\* calculateRealWorldDistance
calculateRealWorldDistance(p1, p2) ==
    IF p1[3] = Zero \/ p2[3] = Zero
    THEN FLT_MAX
    ELSE LET dx == RSub(p1[1], p2[1])
             dy == RSub(p1[2], p2[2])
             dz == RSub(p1[3], p2[3])
         IN RSqrt(RAdd(RAdd(RMul(dx, dx), RMul(dy, dy)), RMul(dz, dz)))

\* cv::Mat camera matrix: empty, or the 3 x 3 matrix of the pinhole
\* intrinsics fx, fy, cx, cy
EmptyMat ==
    [empty |-> TRUE, rows |-> 0, cols |-> 0,
     fx |-> Zero, fy |-> Zero, cx |-> Zero, cy |-> Zero]
CamMat(fx, fy, cx, cy) ==
    [empty |-> FALSE, rows |-> 3, cols |-> 3, fx |-> fx, fy |-> fy, cx |-> cx, cy |-> cy]

\* pixelToApproxWorld
pixelToApproxWorld(pixel_coord, cam_matrix, distance_to_plane) ==
    IF cam_matrix.empty \/ cam_matrix.fx = Zero
    THEN <<pixel_coord[1], pixel_coord[2], Zero>>
    ELSE LET X == RDiv(RMul(RSub(pixel_coord[1], cam_matrix.cx), distance_to_plane),
                       cam_matrix.fx)
             Y == RDiv(RMul(RSub(pixel_coord[2], cam_matrix.cy), distance_to_plane),
                       cam_matrix.fy)
         IN <<X, Y, distance_to_plane>>

---------------------------------------------------------------------------
(* Data model (utils.h).                                                   *)

\* struct HotSpot
HotSpot(id, centroid, world, area, temp, grouped) ==
    [id |-> id, pixel_centroid |-> centroid, world_coord_approx |-> world,
     area_pixels |-> area, max_temperature |-> temp, grouped |-> grouped]

\* struct SprayTarget
SprayTarget(id, pixel_aim, world_aim, ids, severity) ==
    [id |-> id, final_pixel_aim_point |-> pixel_aim,
     final_world_aim_point_approx |-> world_aim,
     source_hotspot_ids |-> ids, estimated_severity |-> severity]

\* mutant: the comparison is the wrong way round
TargetLess_Ascending(a, b) == RLt(a.estimated_severity, b.estimated_severity)

\* SprayTarget::operator<  (a sorts before b when it is the more severe)
TargetLess(a, b) == RGt(a.estimated_severity, b.estimated_severity)

---------------------------------------------------------------------------
(* Target clusterer: determineSprayTargets (vision_processing.cpp).        *)

\* mutant: the flags are left as they come in
ResetGrouped_Skipped(hs) == hs

\* for (auto &spot : hot_spots) spot.grouped = false;
ResetGrouped(hs) == [k \in DOMAIN hs |-> [hs[k] EXCEPT !.grouped = FALSE]]

\* mutant: the flag is never set
MarkGrouped_Forgets(hs, k) == hs

\* hot_spots[k].grouped = true;
MarkGrouped(hs, k) == [hs EXCEPT ![k].grouped = TRUE]

\* mutant: the peak temperature is left out of the product
SeverityTerm_AreaOnly(spot) == spot.area_pixels

\* static_cast<float>(area_pixels * max_temperature)
SeverityTerm(spot) == RMul(spot.area_pixels, spot.max_temperature)

\* mutant: a distance equal to the grouping distance merges as well
WithinGroupingDistance_Inclusive(seed, other, max_grouping_distance_param) ==
    RLe(calculateRealWorldDistance(seed.world_coord_approx, other.world_coord_approx),
        max_grouping_distance_param)

\* the admission test of the inner loop
WithinGroupingDistance(seed, other, max_grouping_distance_param) ==
    RLt(calculateRealWorldDistance(seed.world_coord_approx, other.world_coord_approx),
        max_grouping_distance_param)

\* mutant: the seed is not listed among the members
SeedIds_Empty(spot) == <<>>

\* current_target.source_hotspot_ids.push_back(hot_spots[i].id) on a new target
SeedIds(spot) == <<spot.id>>

\* the state of a group when its seed hot_spots[i] has just been taken
SeedGroup(hs, i) ==
    [hs |-> MarkGrouped(hs, i),
     ids |-> SeedIds(hs[i]),
     sum_pixel_centroids |-> hs[i].pixel_centroid,
     sum_world_centroids_approx |-> hs[i].world_coord_approx,
     total_severity_metric |-> SeverityTerm(hs[i]),
     num_in_group |-> 1]

\* mutant: the centroid of an admitted hot spot is not added to the sum
Admit_NoPixelSum(g, j) ==
    [hs |-> MarkGrouped(g.hs, j),
     ids |-> Append(g.ids, g.hs[j].id),
     sum_pixel_centroids |-> g.sum_pixel_centroids,
     sum_world_centroids_approx |->
         P3Add(g.sum_world_centroids_approx, g.hs[j].world_coord_approx),
     total_severity_metric |-> RAdd(g.total_severity_metric, SeverityTerm(g.hs[j])),
     num_in_group |-> g.num_in_group + 1]

\* the body of the inner loop when hot_spots[j] is admitted
Admit(g, j) ==
    [hs |-> MarkGrouped(g.hs, j),
     ids |-> Append(g.ids, g.hs[j].id),
     sum_pixel_centroids |-> P2Add(g.sum_pixel_centroids, g.hs[j].pixel_centroid),
     sum_world_centroids_approx |->
         P3Add(g.sum_world_centroids_approx, g.hs[j].world_coord_approx),
     total_severity_metric |-> RAdd(g.total_severity_metric, SeverityTerm(g.hs[j])),
     num_in_group |-> g.num_in_group + 1]

\* mutant: hot_spots[j] is compared with its predecessor hot_spots[j - 1]
\* instead of the seed hot_spots[i]
RECURSIVE GroupLoop_Chained(_, _, _, _)
GroupLoop_Chained(g, i, j, max_grouping_distance_param) ==
    IF j > Len(g.hs) THEN g
    ELSE IF g.hs[j].grouped
         THEN GroupLoop_Chained(g, i, j + 1, max_grouping_distance_param)
    ELSE IF WithinGroupingDistance(g.hs[j - 1], g.hs[j], max_grouping_distance_param)
         THEN GroupLoop_Chained(Admit(g, j), i, j + 1, max_grouping_distance_param)
    ELSE GroupLoop_Chained(g, i, j + 1, max_grouping_distance_param)

\* for (size_t j = i + 1; j < hot_spots.size(); ++j)
RECURSIVE GroupLoop(_, _, _, _)
GroupLoop(g, i, j, max_grouping_distance_param) ==
    IF j > Len(g.hs) THEN g
    ELSE IF g.hs[j].grouped
         THEN GroupLoop(g, i, j + 1, max_grouping_distance_param)
    ELSE IF WithinGroupingDistance(g.hs[i], g.hs[j], max_grouping_distance_param)
         THEN GroupLoop(Admit(g, j), i, j + 1, max_grouping_distance_param)
    ELSE GroupLoop(g, i, j + 1, max_grouping_distance_param)

\* mutant: a target takes the id of its seed
FinishTarget_SeedId(g, target_id) ==
    LET inv == RDiv(One, R(g.num_in_group))
    IN SprayTarget(g.ids[1],
                   P2Scale(g.sum_pixel_centroids, inv),
                   IF g.sum_world_centroids_approx[3] # Zero /\ g.num_in_group > 0
                   THEN P3Scale(g.sum_world_centroids_approx, inv)
                   ELSE P3Origin,
                   g.ids,
                   g.total_severity_metric)

\* the aggregation after the inner loop
FinishTarget(g, target_id) ==
    LET inv == RDiv(One, R(g.num_in_group))
    IN SprayTarget(target_id,
                   P2Scale(g.sum_pixel_centroids, inv),
                   IF g.sum_world_centroids_approx[3] # Zero /\ g.num_in_group > 0
                   THEN P3Scale(g.sum_world_centroids_approx, inv)
                   ELSE P3Origin,
                   g.ids,
                   g.total_severity_metric)

\* for (size_t i = 0; i < hot_spots.size(); ++i)
\* st = [hs, final_targets, target_id_counter]
RECURSIVE SeedLoop(_, _, _)
SeedLoop(st, i, max_grouping_distance_param) ==
    IF i > Len(st.hs) THEN st
    ELSE IF st.hs[i].grouped THEN SeedLoop(st, i + 1, max_grouping_distance_param)
    ELSE LET g == GroupLoop(SeedGroup(st.hs, i), i, i + 1, max_grouping_distance_param)
         IN SeedLoop([hs |-> g.hs,
                      final_targets |->
                          Append(st.final_targets, FinishTarget(g, st.target_id_counter)),
                      target_id_counter |-> st.target_id_counter + 1],
                     i + 1, max_grouping_distance_param)

\* the targets in formation order, and the hot spots with their flags, as
\* they stand just before std::sort
FormTargets(hs, max_grouping_distance_param) ==
    IF hs = <<>>
    THEN [hs |-> hs, final_targets |-> <<>>, target_id_counter |-> 0]
    ELSE SeedLoop([hs |-> ResetGrouped(hs), final_targets |-> <<>>,
                   target_id_counter |-> 0],
                  1, max_grouping_distance_param)

\* std::sort(first, last) with operator<: some permutation in which no
\* element is less than an earlier one.  std::sort is not stable: the order
\* of elements neither of which is less than the other is unspecified.
StdSort(seq) ==
    LET n == Len(seq)
        perms == {p \in [1..n -> 1..n] : \A a, b \in 1..n : a # b => p[a] # p[b]}
    IN {[k \in 1..n |-> seq[p[k]]] : p \in
           {q \in perms : \A a, b \in 1..n : a < b => ~TargetLess(seq[q[b]], seq[q[a]])}}

\* mutant: the hot spots taken into targets are removed from the input
determineSprayTargets_ConsumesInput(hs, max_grouping_distance_param) ==
    LET formed == FormTargets(hs, max_grouping_distance_param)
    IN {[hot_spots |-> SelectSeq(formed.hs, LAMBDA spot : ~spot.grouped),
         final_targets |-> sorted] :
           sorted \in StdSort(formed.final_targets)}

\* std::vector<SprayTarget> determineSprayTargets(hot_spots, max_grouping_distance_param):
\* every result the call can produce, as [hot_spots (the flags it leaves), final_targets]
determineSprayTargets(hs, max_grouping_distance_param) ==
    LET formed == FormTargets(hs, max_grouping_distance_param)
    IN {[hot_spots |-> formed.hs, final_targets |-> sorted] :
           sorted \in StdSort(formed.final_targets)}

\* the aggregation after the inner loop in the configured build: the world
\* aim point is the mean whatever the summed Z
FinishTargetConfigured(g, target_id) ==
    LET inv == RDiv(One, R(g.num_in_group))
    IN SprayTarget(target_id,
                   P2Scale(g.sum_pixel_centroids, inv),
                   P3Scale(g.sum_world_centroids_approx, inv),
                   g.ids,
                   g.total_severity_metric)

\* the outer loop of the configured build
RECURSIVE SeedLoopConfigured(_, _, _)
SeedLoopConfigured(st, i, max_grouping_distance_param) ==
    IF i > Len(st.hs) THEN st
    ELSE IF st.hs[i].grouped
         THEN SeedLoopConfigured(st, i + 1, max_grouping_distance_param)
    ELSE LET g == GroupLoop(SeedGroup(st.hs, i), i, i + 1, max_grouping_distance_param)
         IN SeedLoopConfigured(
                [hs |-> g.hs,
                 final_targets |->
                     Append(st.final_targets,
                            FinishTargetConfigured(g, st.target_id_counter)),
                 target_id_counter |-> st.target_id_counter + 1],
                i + 1, max_grouping_distance_param)

FormTargetsConfigured(hs, max_grouping_distance_param) ==
    IF hs = <<>>
    THEN [hs |-> hs, final_targets |-> <<>>, target_id_counter |-> 0]
    ELSE SeedLoopConfigured([hs |-> ResetGrouped(hs), final_targets |-> <<>>,
                             target_id_counter |-> 0],
                            1, max_grouping_distance_param)

\* determineSprayTargets of the configured build
determineSprayTargetsConfigured(hs, max_grouping_distance_param) ==
    LET formed == FormTargetsConfigured(hs, max_grouping_distance_param)
    IN {[hot_spots |-> formed.hs, final_targets |-> sorted] :
           sorted \in StdSort(formed.final_targets)}

---------------------------------------------------------------------------
(* Aim-angle resolver: calculateGimbalAngles (vision_processing.cpp).      *)

\* struct CloudGimbalAngles
CloudGimbalAngles(azimuth, pitch) ==
    [target_azimuth_degrees |-> azimuth, target_pitch_degrees |-> pitch]

\* the argument list of calculateGimbalAngles
GimbalArgs(pixel, width, height, hfov, vfov, azimuth, pitch, nozzle_azimuth, nozzle_pitch) ==
    [target_pixel_coords |-> pixel, image_width |-> width, image_height |-> height,
     camera_hfov_degrees |-> hfov, camera_vfov_degrees |-> vfov,
     current_cloud_azimuth_degrees |-> azimuth, current_cloud_pitch_degrees |-> pitch,
     nozzle_offset_azimuth_degrees |-> nozzle_azimuth,
     nozzle_offset_pitch_degrees |-> nozzle_pitch]

\* mutant: a FOV of exactly 0 passes the validation
InvalidDimensionsOrFov_StrictFov(a) ==
    \/ a.image_width <= 0
    \/ a.image_height <= 0
    \/ RLt(a.camera_hfov_degrees, Zero)
    \/ RLt(a.camera_vfov_degrees, Zero)

\* the validation that opens calculateGimbalAngles
InvalidDimensionsOrFov(a) ==
    \/ a.image_width <= 0
    \/ a.image_height <= 0
    \/ RLe(a.camera_hfov_degrees, Zero)
    \/ RLe(a.camera_vfov_degrees, Zero)

\* mutant: the pixel offset is scaled by the full FOV instead of half of it
DeltaDegrees_FullFov(target, extent, fov) ==
    LET c == RDiv(R(extent), R(2))
        delta_pixels == RSub(target, c)
    IN RMul(RDiv(delta_pixels, c), fov)

\* (pixel offset / half extent in pixels) * half FOV
DeltaDegrees(target, extent, fov) ==
    LET c == RDiv(R(extent), R(2))
        delta_pixels == RSub(target, c)
    IN RMul(RDiv(delta_pixels, c), RDiv(fov, R(2)))

\* mutant: the result is clamped at 45 degrees
FinalAngle_Clamped(current, delta_degrees, nozzle_offset) ==
    LET v == RSub(RAdd(current, delta_degrees), nozzle_offset)
    IN IF RGt(v, R(45)) THEN R(45) ELSE v

\* current attitude + angular offset - nozzle offset; nothing clamps or wraps it
FinalAngle(current, delta_degrees, nozzle_offset) ==
    RSub(RAdd(current, delta_degrees), nozzle_offset)

\* calculateGimbalAngles
calculateGimbalAngles(a) ==
    IF InvalidDimensionsOrFov(a)
    THEN CloudGimbalAngles(a.current_cloud_azimuth_degrees, a.current_cloud_pitch_degrees)
    ELSE CloudGimbalAngles(
             FinalAngle(a.current_cloud_azimuth_degrees,
                        DeltaDegrees(a.target_pixel_coords[1], a.image_width,
                                     a.camera_hfov_degrees),
                        a.nozzle_offset_azimuth_degrees),
             FinalAngle(a.current_cloud_pitch_degrees,
                        DeltaDegrees(a.target_pixel_coords[2], a.image_height,
                                     a.camera_vfov_degrees),
                        a.nozzle_offset_pitch_degrees))

---------------------------------------------------------------------------
(* Inputs of the clusterer.                                                *)

MaxSpots == 3

\* pixel centroids at mutual distances 3, 4 and 5
Pixels == {<<R(0), R(0)>>, <<R(3), R(0)>>, <<R(0), R(4)>>}
\* a camera matrix without intrinsics, and one whose focal length equals the
\* plane distance, so that a projected centroid lies at its pixel coordinates
Cams == {EmptyMat, CamMat(R(8), R(8), Zero, Zero)}
\* <<area_pixels, max_temperature>>: a small cool region and a large hot one
Features == {<<R(30), R(260)>>, <<R(60), R(520)>>}
GroupingDistances == {R(4), R(5), INFINITY}
\* const float ASSUMED_DISTANCE_TO_FIRE_PLANE_METERS = 8.0f;
ASSUMED_DISTANCE_TO_FIRE_PLANE_METERS == R(8)

SpotInputs == Pixels \X Cams \X Features

\* a hot spot as detectAndFilterHotspots builds it: sequential id, projected
\* centroid, grouped = false
NewSpot(id, in) ==
    HotSpot(id, in[1], pixelToApproxWorld(in[1], in[2], ASSUMED_DISTANCE_TO_FIRE_PLANE_METERS),
            in[3][1], in[3][2], FALSE)

NoArgs == GimbalArgs(<<Zero, Zero>>, 0, 0, Zero, Zero, Zero, Zero, Zero, Zero)
NoAngles == CloudGimbalAngles(Zero, Zero)
NoParams == [camera_matrix |-> EmptyMat, hfov_degrees |-> Zero, vfov_degrees |-> Zero,
             nozzle_azimuth_offset |-> Zero, nozzle_pitch_offset |-> Zero]
NoMatrix ==
    [empty |-> TRUE, type |-> "CV_32FC1", rows |-> 0, cols |-> 0,
     background |-> Zero, regions |-> <<>>]

---------------------------------------------------------------------------
(* Specification of the clusterer: one call, of either build, on an        *)
(* arbitrary hot spot list.                                                *)

InitCluster ==
    /\ \E n \in 0..MaxSpots : \E f \in [1..n -> SpotInputs] :
           hot_spots = [k \in 1..n |-> NewSpot(k - 1, f[k])]
    /\ pc \in {"cluster_call", "cluster_call_configured"}
    /\ max_grouping_distance \in GroupingDistances
    /\ spray_targets = <<>>
    /\ gimbal_args = NoArgs
    /\ angles = NoAngles
    /\ params = NoParams
    /\ temperature_matrix = NoMatrix
    /\ console = <<>>

CallDetermineSprayTargets ==
    /\ pc = "cluster_call"
    /\ \E res \in determineSprayTargets(hot_spots, max_grouping_distance) :
           /\ hot_spots' = res.hot_spots
           /\ spray_targets' = res.final_targets
    /\ pc' = "cluster_done"
    /\ UNCHANGED <<max_grouping_distance, gimbalVars, mainVars>>

CallDetermineSprayTargetsConfigured ==
    /\ pc = "cluster_call_configured"
    /\ \E res \in determineSprayTargetsConfigured(hot_spots, max_grouping_distance) :
           /\ hot_spots' = res.hot_spots
           /\ spray_targets' = res.final_targets
    /\ pc' = "cluster_done_configured"
    /\ UNCHANGED <<max_grouping_distance, gimbalVars, mainVars>>

\* a second call on the list the first call has left, every flag set
CallDetermineSprayTargetsAgain ==
    /\ pc = "cluster_done"
    /\ \E res \in determineSprayTargets(hot_spots, max_grouping_distance) :
           /\ hot_spots' = res.hot_spots
           /\ spray_targets' = res.final_targets
    /\ pc' = "cluster_done_again"
    /\ UNCHANGED <<max_grouping_distance, gimbalVars, mainVars>>

NextCluster ==
    \/ CallDetermineSprayTargets
    \/ CallDetermineSprayTargetsConfigured
    \/ CallDetermineSprayTargetsAgain

SpecCluster == InitCluster /\ [][NextCluster]_vars

---------------------------------------------------------------------------
(* Properties of the clusterer, read when the call has returned.           *)

ClusterDone == pc \in {"cluster_done", "cluster_done_configured", "cluster_done_again"}

InputIds == {hot_spots[k].id : k \in DOMAIN hot_spots}

\* every position <<t, m>> of a member id in the returned list
MemberPositions ==
    UNION {{<<t, m>> : m \in DOMAIN spray_targets[t].source_hotspot_ids} :
              t \in DOMAIN spray_targets}

MemberAt(tm) == spray_targets[tm[1]].source_hotspot_ids[tm[2]]

SpotWithId(id) == hot_spots[CHOOSE k \in DOMAIN hot_spots : hot_spots[k].id = id]

\* C1: the returned targets partition the input ids: every input id is at
\* exactly one member position of the returned list, and every member id is
\* an input id.
C1_TargetsPartitionInput ==
    ClusterDone =>
        /\ \A id \in InputIds :
               Cardinality({tm \in MemberPositions : MemberAt(tm) = id}) = 1
        /\ \A tm \in MemberPositions : MemberAt(tm) \in InputIds

\* three hot spots came back as one merged target and one single target
C1_Witness ==
    /\ ClusterDone
    /\ Len(hot_spots) = 3
    /\ Len(spray_targets) = 2
    /\ \E t \in DOMAIN spray_targets : Len(spray_targets[t].source_hotspot_ids) = 2

\* C2: the returned list is in descending order of severity.
C2_SortedBySeverityDescending ==
    ClusterDone =>
        \A i, j \in DOMAIN spray_targets :
            i < j => RLe(spray_targets[j].estimated_severity,
                         spray_targets[i].estimated_severity)

\* the sort moved a later-formed, more severe target in front of an earlier one
C2_Witness ==
    /\ ClusterDone
    /\ \E i, j \in DOMAIN spray_targets :
           /\ i < j
           /\ spray_targets[i].id > spray_targets[j].id
           /\ RGt(spray_targets[i].estimated_severity, spray_targets[j].estimated_severity)

\* C3: targets of equal severity are returned in formation order (the one
\* with the smaller target id first).
C3_TiesInFormationOrder ==
    ClusterDone =>
        \A i, j \in DOMAIN spray_targets :
            (i < j /\ spray_targets[i].estimated_severity = spray_targets[j].estimated_severity)
                => spray_targets[i].id < spray_targets[j].id

\* area_pixels * max_temperature summed over the hot spots with the ids listed
RECURSIVE SeverityOfMembers(_)
SeverityOfMembers(ids) ==
    IF ids = <<>> THEN Zero
    ELSE LET spot == SpotWithId(Head(ids))
         IN RAdd(RMul(spot.area_pixels, spot.max_temperature), SeverityOfMembers(Tail(ids)))

\* C4: the severity of every returned target is the sum of area times peak
\* temperature over exactly its listed members.
C4_SeverityIsSumOverMembers ==
    ClusterDone =>
        \A t \in DOMAIN spray_targets :
            spray_targets[t].estimated_severity =
                SeverityOfMembers(spray_targets[t].source_hotspot_ids)

\* a returned target with three members
C4_Witness ==
    /\ ClusterDone
    /\ \E t \in DOMAIN spray_targets : Len(spray_targets[t].source_hotspot_ids) = 3

\* C5: a hot spot whose world position has Z = 0 is the only member of its
\* target, whatever the grouping distance.
C5_ZeroDepthSpotStaysAlone ==
    ClusterDone =>
        \A k \in DOMAIN hot_spots :
            hot_spots[k].world_coord_approx[3] = Zero =>
                \A t \in DOMAIN spray_targets :
                    (\E m \in DOMAIN spray_targets[t].source_hotspot_ids :
                         spray_targets[t].source_hotspot_ids[m] = hot_spots[k].id)
                        => Len(spray_targets[t].source_hotspot_ids) = 1

\* C6: an empty list yields an empty list; a non-empty list yields between 1
\* and Len(hot_spots) targets, none of them without a member.
C6_NoEmptyTarget ==
    ClusterDone =>
        /\ hot_spots = <<>> => spray_targets = <<>>
        /\ hot_spots # <<>> =>
               /\ Len(spray_targets) >= 1
               /\ Len(spray_targets) <= Len(hot_spots)
               /\ \A t \in DOMAIN spray_targets :
                      Len(spray_targets[t].source_hotspot_ids) >= 1

\* a non-empty list whose hot spots all came back as targets of their own
C6_Witness ==
    /\ ClusterDone
    /\ Len(hot_spots) = 3
    /\ Len(spray_targets) = 3

\* hot spot at index j is listed by target t
ListedBy(t, j) ==
    \E m \in DOMAIN spray_targets[t].source_hotspot_ids :
        spray_targets[t].source_hotspot_ids[m] = hot_spots[j].id

\* target t was seeded by the hot spot at index i
SeededBy(t, i) == spray_targets[t].source_hotspot_ids[1] = hot_spots[i].id

\* hot spot at index j was admitted to a target whose seed lies before index i
AdmittedBefore(i, j) ==
    \E t \in DOMAIN spray_targets, h \in 1..(i - 1) : SeededBy(t, h) /\ ListedBy(t, j)

\* C20: for a target seeded at index i and an index j > i, hot spot j is a
\* member of the target exactly when no target with an earlier seed admitted
\* it and its distance to the seed is strictly less than the grouping
\* distance; the other members of the target play no part.
C20_GroupingIsSeedRelative ==
    ClusterDone =>
        \A t \in DOMAIN spray_targets, i \in DOMAIN hot_spots :
            SeededBy(t, i) =>
                \A j \in (i + 1)..Len(hot_spots) :
                    ListedBy(t, j) <=>
                        /\ ~AdmittedBefore(i, j)
                        /\ RLt(calculateRealWorldDistance(hot_spots[i].world_coord_approx,
                                                          hot_spots[j].world_coord_approx),
                               max_grouping_distance)

\* seed at (3, 0), a member at (0, 0), a third hot spot at (0, 4): 4 from
\* the member, exactly the grouping distance 5 from the seed, left alone
C20_Witness ==
    /\ ClusterDone
    /\ max_grouping_distance = R(5)
    /\ Len(hot_spots) = 3
    /\ hot_spots[1].world_coord_approx = <<R(3), R(0), R(8)>>
    /\ hot_spots[2].world_coord_approx = <<R(0), R(0), R(8)>>
    /\ hot_spots[3].world_coord_approx = <<R(0), R(4), R(8)>>
    /\ \E t \in DOMAIN spray_targets : spray_targets[t].source_hotspot_ids = <<0, 1>>
    /\ \E t \in DOMAIN spray_targets : spray_targets[t].source_hotspot_ids = <<2>>

\* hot spots at indices a and b lie strictly within the grouping distance
Near(a, b) ==
    RLt(calculateRealWorldDistance(hot_spots[a].world_coord_approx,
                                   hot_spots[b].world_coord_approx),
        max_grouping_distance)

\* the member lists of the returned targets
MemberLists == {spray_targets[t].source_hotspot_ids : t \in DOMAIN spray_targets}

\* C21: of three hot spots with valid positions, where those at indices a
\* and c are each near the one at b but not near each other, all three end
\* in one target exactly when b is the first index; otherwise the first of
\* them takes b and the remaining one forms a target of its own.
C21_MiddleMustBeSeed ==
    (/\ ClusterDone
     /\ Len(hot_spots) = 3
     /\ \A k \in 1..3 : hot_spots[k].world_coord_approx[3] # Zero) =>
        \A b \in 1..3 : \A a, c \in (1..3) \ {b} :
            (a < c /\ Near(a, b) /\ Near(c, b) /\ ~Near(a, c)) =>
                IF b = 1
                THEN MemberLists = {<<hot_spots[1].id, hot_spots[2].id, hot_spots[3].id>>}
                ELSE MemberLists =
                         {IF a < b THEN <<hot_spots[a].id, hot_spots[b].id>>
                                   ELSE <<hot_spots[b].id, hot_spots[a].id>>,
                          <<hot_spots[c].id>>}

\* the middle hot spot (0, 0) comes last: the first, at (3, 0), takes it and
\* the second, at (0, 4), stays alone
C21_Witness ==
    /\ ClusterDone
    /\ max_grouping_distance = R(5)
    /\ Len(hot_spots) = 3
    /\ hot_spots[1].world_coord_approx = <<R(3), R(0), R(8)>>
    /\ hot_spots[2].world_coord_approx = <<R(0), R(4), R(8)>>
    /\ hot_spots[3].world_coord_approx = <<R(0), R(0), R(8)>>
    /\ MemberLists = {<<0, 2>>, <<1>>}

\* the sum of the pixel centroids of the hot spots with the given ids
RECURSIVE CentroidSumOfMembers(_)
CentroidSumOfMembers(ids) ==
    IF ids = <<>> THEN <<Zero, Zero>>
    ELSE P2Add(SpotWithId(Head(ids)).pixel_centroid, CentroidSumOfMembers(Tail(ids)))

\* C22: the pixel aim point of every returned target is the arithmetic mean
\* of the pixel centroids of the hot spots its source_hotspot_ids list, the
\* divisor being the number of ids listed.
C22_PixelAimIsMeanOfMembers ==
    ClusterDone =>
        \A t \in DOMAIN spray_targets :
            LET ids == spray_targets[t].source_hotspot_ids
            IN /\ ids # <<>>
               /\ P2Scale(spray_targets[t].final_pixel_aim_point, R(Len(ids)))
                      = CentroidSumOfMembers(ids)

\* one target of three members at three different centroids
C22_Witness ==
    /\ ClusterDone
    /\ Len(spray_targets) = 1
    /\ Len(spray_targets[1].source_hotspot_ids) = 3
    /\ Cardinality({hot_spots[k].pixel_centroid : k \in DOMAIN hot_spots}) = 3
    /\ spray_targets[1].final_pixel_aim_point = <<One, <<4, 3>>>>

\* the sum of the world positions of the hot spots with the given ids
RECURSIVE WorldSumOfMembers(_)
WorldSumOfMembers(ids) ==
    IF ids = <<>> THEN P3Origin
    ELSE P3Add(SpotWithId(Head(ids)).world_coord_approx, WorldSumOfMembers(Tail(ids)))

\* C23: the world aim point of every returned target is the origin when the
\* summed Z of its members is exactly 0 and the mean of the members' world
\* positions otherwise, so that a lone member projected with Z = 0 never
\* passes its raw pixel coordinates on as a world aim point.
C23_WorldAimIsMeanOrOrigin ==
    ClusterDone =>
        \A t \in DOMAIN spray_targets :
            LET ids == spray_targets[t].source_hotspot_ids
                sum == WorldSumOfMembers(ids)
                aim == spray_targets[t].final_world_aim_point_approx
            IN IF sum[3] = Zero
               THEN aim = P3Origin
               ELSE P3Scale(aim, R(Len(ids))) = sum

AllGrouped(hs) == \A k \in DOMAIN hs : hs[k].grouped

TargetSet(targets) == {targets[t] : t \in DOMAIN targets}

\* C27: the call does not depend on the flags it receives: every call on a
\* non-empty list leaves every flag set, and a second call, made on the list
\* with every flag set, returns the targets of the first call, made on the
\* list with every flag clear (up to the order std::sort gives to targets of
\* equal severity).
C27_IncomingFlagsPlayNoPart ==
    [][/\ hot_spots # <<>> => AllGrouped(hot_spots')
       /\ pc = "cluster_done" =>
              /\ Len(spray_targets') = Len(spray_targets)
              /\ TargetSet(spray_targets') = TargetSet(spray_targets)]_vars

\* a second call has returned two targets for three hot spots
C27_Witness ==
    /\ pc = "cluster_done_again"
    /\ Len(hot_spots) = 3
    /\ AllGrouped(hot_spots)
    /\ Len(spray_targets) = 2

\* a hot spot list without its flags
WithoutFlags(hs) ==
    [k \in DOMAIN hs |->
        [id |-> hs[k].id, pixel_centroid |-> hs[k].pixel_centroid,
         world_coord_approx |-> hs[k].world_coord_approx,
         area_pixels |-> hs[k].area_pixels, max_temperature |-> hs[k].max_temperature]]

\* C28: a call changes nothing in its input except the grouped flags: the
\* number and order of the hot spots and every hot spot's id, centroid, world
\* position, area and peak temperature are the same after the call as before.
C28_OnlyFlagsChange ==
    [][WithoutFlags(hot_spots') = WithoutFlags(hot_spots)]_vars

\* a call has set the flags of three distinct hot spots
C28_Witness ==
    /\ pc = "cluster_done"
    /\ Len(hot_spots) = 3
    /\ AllGrouped(hot_spots)
    /\ \A a, b \in DOMAIN hot_spots :
           a # b => WithoutFlags(hot_spots)[a] # WithoutFlags(hot_spots)[b]
    /\ hot_spots[1].pixel_centroid # hot_spots[2].pixel_centroid
    /\ hot_spots[1].max_temperature # hot_spots[3].max_temperature

\* the index in hot_spots of the first listed member of target t
FirstMemberIndex(t) ==
    CHOOSE i \in DOMAIN hot_spots : SeededBy(t, i)

\* C29: target ids follow the order of formation, not the rank: the ids of
\* the k targets are 0 .. k - 1, each once; the target with the smaller id
\* has the earlier seed; the first listed member of a target is its seed,
\* the earliest of its members and the one every other member is near; the
\* member ids are listed in increasing input order.
C29_IdsFollowFormationOrder ==
    ClusterDone =>
        /\ {spray_targets[t].id : t \in DOMAIN spray_targets} = 0..(Len(spray_targets) - 1)
        /\ \A s, t \in DOMAIN spray_targets :
               spray_targets[s].id < spray_targets[t].id
                   => FirstMemberIndex(s) < FirstMemberIndex(t)
        /\ \A t \in DOMAIN spray_targets :
               LET ids == spray_targets[t].source_hotspot_ids
               IN /\ \A a, b \in DOMAIN ids : a < b => ids[a] < ids[b]
                  /\ \A j \in DOMAIN hot_spots :
                         ListedBy(t, j) /\ ~SeededBy(t, j)
                             => /\ FirstMemberIndex(t) < j
                                /\ Near(FirstMemberIndex(t), j)

\* the target ranked first was formed second, and the target ranked second
\* has two members
C29_Witness ==
    /\ ClusterDone
    /\ Len(spray_targets) = 2
    /\ spray_targets[1].id = 1
    /\ spray_targets[2].id = 0
    /\ Len(spray_targets[2].source_hotspot_ids) = 2

---------------------------------------------------------------------------
(* Specification of the resolver: one call on arbitrary arguments.         *)

TargetXs == {R(0), R(1), R(2), R(4)}
TargetYs == {R(0), R(1), R(3)}
ImageWidths == {-4, 0, 3, 4}
ImageHeights == {-2, 0, 2}
HFovs == {R(-40), Zero, R(40)}
VFovs == {R(-30), Zero, R(30)}
Azimuths == {Zero, R(350)}
Pitches == {Zero, R(80)}
NozzleAzimuths == {Zero, <<3, 2>>}
NozzlePitches == {Zero, R(-2)}

\* the call of the example log of the documentation: target pixel
\* (197.08, 224.43) in a 384 x 288 frame, HFOV 39.5, VFOV 30.1, attitude
\* (0, 0), nozzle offsets (1.5, -2)
LoggedCall ==
    GimbalArgs(<<<<4927, 25>>, <<22443, 100>>>>, 384, 288, <<79, 2>>, <<301, 10>>,
               Zero, Zero, <<3, 2>>, R(-2))

InitGimbal ==
    /\ pc = "gimbal_call"
    /\ \/ \E x \in TargetXs, y \in TargetYs, w \in ImageWidths, h \in ImageHeights,
             hfov \in HFovs, vfov \in VFovs, az \in Azimuths, p \in Pitches,
             naz \in NozzleAzimuths, np \in NozzlePitches :
              gimbal_args = GimbalArgs(<<x, y>>, w, h, hfov, vfov, az, p, naz, np)
       \/ gimbal_args = LoggedCall
    /\ angles = NoAngles
    /\ hot_spots = <<>>
    /\ max_grouping_distance = Zero
    /\ spray_targets = <<>>
    /\ params = NoParams
    /\ temperature_matrix = NoMatrix
    /\ console = <<>>

CallCalculateGimbalAngles ==
    /\ pc = "gimbal_call"
    /\ angles' = calculateGimbalAngles(gimbal_args)
    /\ pc' = "gimbal_done"
    /\ UNCHANGED <<gimbal_args, clusterVars, mainVars>>

NextGimbal == CallCalculateGimbalAngles

SpecGimbal == InitGimbal /\ [][NextGimbal]_vars

GimbalDone == pc = "gimbal_done"

\* C7: with a width, height, horizontal or vertical FOV that is not positive
\* the call returns the current azimuth and pitch as they were passed in.
C7_InvalidInputReturnsCurrentAttitude ==
    (GimbalDone /\ (\/ gimbal_args.image_width <= 0
                    \/ gimbal_args.image_height <= 0
                    \/ RLe(gimbal_args.camera_hfov_degrees, Zero)
                    \/ RLe(gimbal_args.camera_vfov_degrees, Zero)))
        => /\ angles.target_azimuth_degrees = gimbal_args.current_cloud_azimuth_degrees
           /\ angles.target_pitch_degrees = gimbal_args.current_cloud_pitch_degrees

\* only the horizontal FOV is invalid, and it is 0; the target is off centre
\* and both nozzle offsets are non-zero
C7_Witness ==
    /\ GimbalDone
    /\ gimbal_args.camera_hfov_degrees = Zero
    /\ gimbal_args.image_width > 0
    /\ gimbal_args.image_height > 0
    /\ RGt(gimbal_args.camera_vfov_degrees, Zero)
    /\ gimbal_args.target_pixel_coords = <<R(4), R(3)>>
    /\ gimbal_args.nozzle_offset_azimuth_degrees # Zero
    /\ gimbal_args.nozzle_offset_pitch_degrees # Zero
    /\ gimbal_args.current_cloud_azimuth_degrees # Zero

ValidGimbalArgs ==
    /\ gimbal_args.image_width > 0
    /\ gimbal_args.image_height > 0
    /\ RGt(gimbal_args.camera_hfov_degrees, Zero)
    /\ RGt(gimbal_args.camera_vfov_degrees, Zero)

\* result = current + ((target - extent/2) / (extent/2)) * (fov/2) - nozzle,
\* cleared of its divisions:
\* (result + nozzle - current) * extent = (2 * target - extent) * fov / 2
AngleLaw(result, current, nozzle, target, extent, fov) ==
    RMul(RSub(RAdd(result, nozzle), current), R(extent)) =
        RDiv(RMul(RSub(RMul(R(2), target), R(extent)), fov), R(2))

\* C9: for valid arguments both returned angles follow the linear law, at
\* any magnitude, and the image centre with zero attitude and zero nozzle
\* offsets yields {0, 0}.
C9_ValidInputFollowsLinearLaw ==
    (GimbalDone /\ ValidGimbalArgs) =>
        /\ AngleLaw(angles.target_azimuth_degrees,
                    gimbal_args.current_cloud_azimuth_degrees,
                    gimbal_args.nozzle_offset_azimuth_degrees,
                    gimbal_args.target_pixel_coords[1],
                    gimbal_args.image_width,
                    gimbal_args.camera_hfov_degrees)
        /\ AngleLaw(angles.target_pitch_degrees,
                    gimbal_args.current_cloud_pitch_degrees,
                    gimbal_args.nozzle_offset_pitch_degrees,
                    gimbal_args.target_pixel_coords[2],
                    gimbal_args.image_height,
                    gimbal_args.camera_vfov_degrees)
        /\ (/\ RMul(R(2), gimbal_args.target_pixel_coords[1]) = R(gimbal_args.image_width)
            /\ RMul(R(2), gimbal_args.target_pixel_coords[2]) = R(gimbal_args.image_height)
            /\ gimbal_args.current_cloud_azimuth_degrees = Zero
            /\ gimbal_args.current_cloud_pitch_degrees = Zero
            /\ gimbal_args.nozzle_offset_azimuth_degrees = Zero
            /\ gimbal_args.nozzle_offset_pitch_degrees = Zero)
               => angles = CloudGimbalAngles(Zero, Zero)

\* a valid call whose azimuth passes 360 degrees and whose pitch passes 90
C9_Witness ==
    /\ GimbalDone
    /\ ValidGimbalArgs
    /\ RGt(angles.target_azimuth_degrees, R(360))
    /\ RGt(angles.target_pitch_degrees, R(90))

\* the offset a returned angle carries: result + nozzle offset - current
AppliedOffset(result, current, nozzle) == RSub(RAdd(result, nozzle), current)

\* the row offset in degrees: ((y - height/2) / (height/2)) * (vfov/2)
RowOffsetDegrees ==
    RDiv(RMul(RSub(RMul(R(2), gimbal_args.target_pixel_coords[2]),
                   R(gimbal_args.image_height)),
              gimbal_args.camera_vfov_degrees),
         RMul(R(2), R(gimbal_args.image_height)))

\* C11: the resolver takes a named pitch polarity (+1 or -1) among its
\* inputs, and the vertical offset it applies to the pitch is that polarity
\* times the row offset, so that reversing the polarity reverses the sign of
\* the vertical offset.
C11_PitchOffsetFollowsPolarity ==
    (GimbalDone /\ ValidGimbalArgs) =>
        /\ "pitch_polarity" \in DOMAIN gimbal_args
        /\ AppliedOffset(angles.target_pitch_degrees,
                         gimbal_args.current_cloud_pitch_degrees,
                         gimbal_args.nozzle_offset_pitch_degrees)
               = RMul(gimbal_args.pitch_polarity, RowOffsetDegrees)

Within(x, y, tolerance) ==
    /\ RLe(RSub(x, y), tolerance)
    /\ RLe(RSub(y, x), tolerance)

\* C12: the call of the example log returns an azimuth within 0.01 of
\* -0.977 and a pitch within 0.01 of 10.406, the offsets before nozzle
\* compensation being 0.523 and 8.406 to the same tolerance.
C12_LoggedCallAngles ==
    (GimbalDone /\ gimbal_args = LoggedCall) =>
        /\ Within(angles.target_azimuth_degrees, <<-977, 1000>>, <<1, 100>>)
        /\ Within(angles.target_pitch_degrees, <<5203, 500>>, <<1, 100>>)
        /\ Within(AppliedOffset(angles.target_azimuth_degrees, Zero, <<3, 2>>),
                  <<523, 1000>>, <<1, 100>>)
        /\ Within(AppliedOffset(angles.target_pitch_degrees, Zero, R(-2)),
                  <<4203, 500>>, <<1, 100>>)

\* the example call has returned, with an azimuth below 0 and a pitch above 10
C12_Witness ==
    /\ GimbalDone
    /\ gimbal_args = LoggedCall
    /\ RLt(angles.target_azimuth_degrees, Zero)
    /\ RGt(angles.target_pitch_degrees, R(10))

---------------------------------------------------------------------------
(* Hotspot segmenter: detectAndFilterHotspots.  Two builds of it exist: the *)
(* one of vision_processing.cpp, which reads the constants of utils.h, and *)
(* the configured one, which reads the globals temperature_threshold and   *)
(* min_hotspot_area_pixels that loadCameraParameters fills and which       *)
(* checks the camera matrix first.                                         *)
(*                                                                         *)
(* A temperature matrix is modelled by its emptiness, element type and     *)
(* size, the temperature of its background samples and its regions: each   *)
(* region is a connected patch of samples that all hold one temperature,   *)
(* apart from the others and from the border, of a shape that the          *)
(* morphological opening and closing leave as it is, given by the          *)
(* measurements OpenCV takes of its contour (contourArea, the centroid     *)
(* m10/m00, m01/m00).                                                      *)

\* const float FIRE_TEMPERATURE_THRESHOLD_CELSIUS = 250.0f;
FIRE_TEMPERATURE_THRESHOLD_CELSIUS == 250
\* const double MIN_HOTSPOT_AREA_PIXELS = 30.0;
MIN_HOTSPOT_AREA_PIXELS == 30

Region(area, centroid, temperature) ==
    [area |-> area, centroid |-> centroid, temperature |-> temperature]

Matrix(type, rows, cols, background, regions) ==
    [empty |-> (rows = 0 \/ cols = 0), type |-> type, rows |-> rows, cols |-> cols,
     background |-> background, regions |-> regions]

\* a contour that cv::findContours returns, with what the loop body reads
\* of it: contourArea, the moment m00, the centroid and the maximum of the
\* matrix inside the filled contour
Contour(area, centroid, max_temp) ==
    [area |-> area, m00 |-> area, centroid |-> centroid, max_temp_in_roi |-> max_temp]

\* mutant: THRESH_BINARY_INV, the mask is set where the sample is not above
ThresholdBinary_Inverted(src, thresh) == RLe(src, thresh)

\* mutant: the mask is also set where the sample equals the threshold
ThresholdBinary_Inclusive(src, thresh) == RLe(thresh, src)

\* cv::threshold(..., cv::THRESH_BINARY): the mask is set where src > thresh
ThresholdBinary(src, thresh) == RGt(src, thresh)

RMax(a, b) == IF RLt(a, b) THEN b ELSE a

\* cv::minMaxLoc over the whole matrix
RECURSIVE MaxSample(_, _)
MaxSample(temp_matrix, k) ==
    IF k > Len(temp_matrix.regions) THEN temp_matrix.background
    ELSE RMax(temp_matrix.regions[k].temperature, MaxSample(temp_matrix, k + 1))

\* the regions whose samples the threshold sets in the mask, in their order
RECURSIVE MaskedRegions(_, _, _)
MaskedRegions(regions, k, thresh) ==
    IF k > Len(regions) THEN <<>>
    ELSE IF ThresholdBinary(regions[k].temperature, thresh)
         THEN <<Contour(regions[k].area, regions[k].centroid, regions[k].temperature)>>
                  \o MaskedRegions(regions, k + 1, thresh)
    ELSE MaskedRegions(regions, k + 1, thresh)

\* cv::threshold, the opening and closing, cv::findContours(RETR_EXTERNAL):
\* a background above the threshold makes the mask one component whose
\* outer contour runs along the border of the matrix; otherwise the
\* contours are those of the regions above the threshold
findContours(temp_matrix, thresh) ==
    IF ThresholdBinary(temp_matrix.background, thresh)
    THEN <<Contour(R((temp_matrix.rows - 1) * (temp_matrix.cols - 1)),
                   <<RDiv(R(temp_matrix.cols - 1), R(2)),
                     RDiv(R(temp_matrix.rows - 1), R(2))>>,
                   MaxSample(temp_matrix, 1))>>
    ELSE MaskedRegions(temp_matrix.regions, 1, thresh)

\* mutant: a contour of exactly the minimum area is dropped as well
BelowMinimumArea_Inclusive(area, min_area) == RLe(area, min_area)

\* if (area < MIN_HOTSPOT_AREA_PIXELS) continue;
BelowMinimumArea(area, min_area) == RLt(area, min_area)

\* mutant: the id counter advances for every contour, retained or not
RECURSIVE ContourLoop_CountsAll(_, _, _, _, _, _)
ContourLoop_CountsAll(contours, k, st, camera_matrix_param, assumed_distance_to_fire_plane_param, min_area) ==
    IF k > Len(contours) THEN st
    ELSE IF BelowMinimumArea(contours[k].area, min_area) \/ contours[k].m00 = Zero
         THEN ContourLoop_CountsAll(contours, k + 1,
                                    [st EXCEPT !.spot_id_counter = @ + 1],
                                    camera_matrix_param,
                                    assumed_distance_to_fire_plane_param, min_area)
    ELSE ContourLoop_CountsAll(
             contours, k + 1,
             [detected_spots |->
                  Append(st.detected_spots,
                         HotSpot(st.spot_id_counter,
                                 contours[k].centroid,
                                 pixelToApproxWorld(contours[k].centroid,
                                                    camera_matrix_param,
                                                    assumed_distance_to_fire_plane_param),
                                 contours[k].area,
                                 contours[k].max_temp_in_roi,
                                 FALSE)),
              spot_id_counter |-> st.spot_id_counter + 1],
             camera_matrix_param, assumed_distance_to_fire_plane_param, min_area)

\* for (const auto &contour : contours); st = [detected_spots, spot_id_counter]
RECURSIVE ContourLoop(_, _, _, _, _, _)
ContourLoop(contours, k, st, camera_matrix_param, assumed_distance_to_fire_plane_param, min_area) ==
    IF k > Len(contours) THEN st
    ELSE IF BelowMinimumArea(contours[k].area, min_area)
         THEN ContourLoop(contours, k + 1, st, camera_matrix_param,
                          assumed_distance_to_fire_plane_param, min_area)
    ELSE IF contours[k].m00 = Zero
         THEN ContourLoop(contours, k + 1, st, camera_matrix_param,
                          assumed_distance_to_fire_plane_param, min_area)
    ELSE ContourLoop(contours, k + 1,
                     [detected_spots |->
                          Append(st.detected_spots,
                                 HotSpot(st.spot_id_counter,
                                         contours[k].centroid,
                                         pixelToApproxWorld(contours[k].centroid,
                                                            camera_matrix_param,
                                                            assumed_distance_to_fire_plane_param),
                                         contours[k].area,
                                         contours[k].max_temp_in_roi,
                                         FALSE)),
                      spot_id_counter |-> st.spot_id_counter + 1],
                     camera_matrix_param, assumed_distance_to_fire_plane_param, min_area)

\* mutant: the element type is not looked at
MalformedMatrix_EmptyOnly(temp_matrix) == temp_matrix.empty

\* if (temp_matrix.empty() || temp_matrix.type() != CV_32FC1)
MalformedMatrix(temp_matrix) == temp_matrix.empty \/ temp_matrix.type # "CV_32FC1"

\* detectAndFilterHotspots (vision_processing.cpp)
detectAndFilterHotspots(temp_matrix, camera_matrix_param, assumed_distance_to_fire_plane_param) ==
    IF MalformedMatrix(temp_matrix)
    THEN <<>>
    ELSE ContourLoop(findContours(temp_matrix, R(FIRE_TEMPERATURE_THRESHOLD_CELSIUS)), 1,
                     [detected_spots |-> <<>>, spot_id_counter |-> 0],
                     camera_matrix_param,
                     assumed_distance_to_fire_plane_param,
                     R(MIN_HOTSPOT_AREA_PIXELS)).detected_spots

\* the check of the configured build:
\* if (camera_matrix_param.empty() || camera_matrix_param.rows != 3 || ...cols != 3)
InvalidCameraMatrix(camera_matrix_param) ==
    \/ camera_matrix_param.empty
    \/ camera_matrix_param.rows # 3
    \/ camera_matrix_param.cols # 3

\* detectAndFilterHotspots of the configured build; temperature_threshold
\* and min_hotspot_area_pixels are the globals it reads
detectAndFilterHotspotsConfigured(temp_matrix, camera_matrix_param, assumed_distance_to_fire_plane_param, temperature_threshold, min_hotspot_area_pixels) ==
    IF MalformedMatrix(temp_matrix)
    THEN <<>>
    ELSE IF InvalidCameraMatrix(camera_matrix_param)
    THEN <<>>
    ELSE ContourLoop(findContours(temp_matrix, temperature_threshold), 1,
                     [detected_spots |-> <<>>, spot_id_counter |-> 0],
                     camera_matrix_param,
                     assumed_distance_to_fire_plane_param,
                     min_hotspot_area_pixels).detected_spots

---------------------------------------------------------------------------
(* The polling loop of main() (main.cpp).                                  *)

\* const float MAX_GROUPING_DISTANCE_METERS = 1.0f;
MAX_GROUPING_DISTANCE_METERS == R(1)

\* struct CameraParams, as initialised in its declaration
DefaultCam == CamMat(R(500), R(500), R(320), R(240))
DefaultParams ==
    [camera_matrix |-> DefaultCam, hfov_degrees |-> R(60), vfov_degrees |-> R(45),
     nozzle_azimuth_offset |-> Zero, nozzle_pitch_offset |-> Zero]

\* float current_gimbal_azimuth = 0.0f; float current_gimbal_pitch = 0.0f;
\* (main never assigns them again)
current_gimbal_azimuth == Zero
current_gimbal_pitch == Zero

\* target_size of getThermalImageAsTemperatureMatrix: cv::Size(384, 288)
TargetCols == 384
TargetRows == 288

\* one line of output of the current iteration
Line(text, value) == [text |-> text, angles |-> value]

\* what calculateGimbalAngles writes to std::cerr
GimbalErrorOutput(a) ==
    IF InvalidDimensionsOrFov(a)
    THEN <<Line("Error: Invalid image dimensions or FOV for angle calculation.", NoAngles)>>
    ELSE <<>>

\* what calculateGimbalAngles writes to std::cout when its arguments are
\* valid: the debug lines, the last of which shows the angles it returns
GimbalDebugOutput(a) ==
    IF InvalidDimensionsOrFov(a)
    THEN <<>>
    ELSE <<Line("Calculated Target Cloud (Az, P)", calculateGimbalAngles(a))>>

\* mutant: the target ranked last is taken
PrimaryTarget_Last(targets) == targets[Len(targets)]

\* const SprayTarget &primary_target = spray_targets[0];
PrimaryTarget(targets) == targets[1]

\* what a params.xml can hold: any camera matrix (none at all when the node
\* is missing), any FOV, any nozzle offsets
FileCams == {DefaultCam, EmptyMat}
FileHFovs == {R(60), Zero}
FileVFovs == {R(45), Zero}
FileNozzleOffsets == {<<Zero, Zero>>, <<<<3, 2>>, R(-2)>>}

\* what the image file can show: up to MaxContours regions, centred 1/2 m
\* apart on the assumed plane under the default camera, below or at the
\* minimum area
MaxContours == 2
FrameCentroids == {<<R(320), R(240)>>, <<<<1155, 4>>, R(240)>>, <<<<515, 2>>, R(240)>>}
FrameAreas == {R(20), R(30)}
FrameTemperatures == {R(260), R(300)}
FrameContours ==
    {Region(a, c, t) : a \in FrameAreas, c \in FrameCentroids, t \in FrameTemperatures}
Frames ==
    UNION {{Matrix("CV_32FC1", TargetRows, TargetCols, R(20), f) :
               f \in [1..n -> FrameContours]} : n \in 0..MaxContours}

InitMain ==
    /\ pc = "main_load"
    /\ params = DefaultParams
    /\ temperature_matrix = NoMatrix
    /\ hot_spots = <<>>
    /\ spray_targets = <<>>
    /\ max_grouping_distance = MAX_GROUPING_DISTANCE_METERS
    /\ gimbal_args = NoArgs
    /\ angles = NoAngles
    /\ console = <<>>

\* loadCameraParameters: the file cannot be opened and the defaults stay
LoadParametersFails ==
    /\ pc = "main_load"
    /\ pc' = "main_acquire"
    /\ UNCHANGED <<params, temperature_matrix, console, clusterVars, gimbalVars>>

\* loadCameraParameters: the file is read
LoadParameters ==
    /\ pc = "main_load"
    /\ \E cam \in FileCams, hfov \in FileHFovs, vfov \in FileVFovs,
          nozzle \in FileNozzleOffsets :
           params' = [camera_matrix |-> cam, hfov_degrees |-> hfov, vfov_degrees |-> vfov,
                      nozzle_azimuth_offset |-> nozzle[1],
                      nozzle_pitch_offset |-> nozzle[2]]
    /\ pc' = "main_acquire"
    /\ UNCHANGED <<temperature_matrix, console, clusterVars, gimbalVars>>

\* getThermalImageAsTemperatureMatrix fails: break
AcquireFails ==
    /\ pc = "main_acquire"
    /\ console' = <<Line("Error: Could not generate temperature matrix from image.", NoAngles)>>
    /\ pc' = "main_terminated"
    /\ UNCHANGED <<params, temperature_matrix, clusterVars, gimbalVars>>

\* getThermalImageAsTemperatureMatrix delivers the frame of a new iteration
Acquire ==
    /\ pc = "main_acquire"
    /\ temperature_matrix' \in Frames
    /\ pc' = "main_process"
    /\ UNCHANGED <<params, console, clusterVars, gimbalVars>>

\* detectAndFilterHotspots, then determineSprayTargets on its result
ProcessFrame ==
    /\ pc = "main_process"
    /\ LET detected == detectAndFilterHotspots(temperature_matrix, params.camera_matrix,
                                               ASSUMED_DISTANCE_TO_FIRE_PLANE_METERS)
       IN \E res \in determineSprayTargets(detected, max_grouping_distance) :
              /\ hot_spots' = res.hot_spots
              /\ spray_targets' = res.final_targets
    /\ pc' = "main_aim"
    /\ UNCHANGED <<max_grouping_distance, params, temperature_matrix, console, gimbalVars>>

\* if (!spray_targets.empty()): resolve the primary target and print the command
AimAtPrimaryTarget ==
    /\ pc = "main_aim"
    /\ spray_targets # <<>>
    /\ LET primary_target == PrimaryTarget(spray_targets)
           a == GimbalArgs(primary_target.final_pixel_aim_point,
                           temperature_matrix.cols, temperature_matrix.rows,
                           params.hfov_degrees, params.vfov_degrees,
                           current_gimbal_azimuth, current_gimbal_pitch,
                           params.nozzle_azimuth_offset, params.nozzle_pitch_offset)
           desired_angles == calculateGimbalAngles(a)
       IN /\ gimbal_args' = a
          /\ angles' = desired_angles
          /\ console' = console \o GimbalErrorOutput(a) \o GimbalDebugOutput(a)
                                \o <<Line("Calculated Gimbal Command", desired_angles)>>
    /\ pc' = "main_show"
    /\ UNCHANGED <<params, temperature_matrix, clusterVars>>

\* else: "No spray targets detected."
NoTargets ==
    /\ pc = "main_aim"
    /\ spray_targets = <<>>
    /\ console' = console \o <<Line("No spray targets detected.", NoAngles)>>
    /\ pc' = "main_show"
    /\ UNCHANGED <<params, temperature_matrix, clusterVars, gimbalVars>>

\* cv::waitKey(500): 'q' or ESC breaks, anything else starts the next
\* iteration.  hot_spots, spray_targets and desired_angles are locals of the
\* loop body and end with it.  temperature_matrix outlives the body, but
\* the next thing that touches it is the acquisition that overwrites it, so
\* the model lets it end with the iteration as well, together with the
\* record of the iteration's output.
WaitKey ==
    /\ pc = "main_show"
    /\ \E quit \in BOOLEAN : pc' = IF quit THEN "main_terminated" ELSE "main_acquire"
    /\ hot_spots' = <<>>
    /\ spray_targets' = <<>>
    /\ gimbal_args' = NoArgs
    /\ angles' = NoAngles
    /\ temperature_matrix' = NoMatrix
    /\ console' = <<>>
    /\ UNCHANGED <<params, max_grouping_distance>>

NextMain ==
    \/ LoadParametersFails
    \/ LoadParameters
    \/ AcquireFails
    \/ Acquire
    \/ ProcessFrame
    \/ AimAtPrimaryTarget
    \/ NoTargets
    \/ WaitKey

SpecMain == InitMain /\ [][NextMain]_vars

\* the current iteration's output holds the resolver's validation error
ResolverFailedValidation ==
    \E k \in DOMAIN console :
        console[k].text = "Error: Invalid image dimensions or FOV for angle calculation."

\* the current iteration's output holds a gimbal command
CommandReported ==
    \E k \in DOMAIN console : console[k].text = "Calculated Gimbal Command"

\* C8: an iteration whose resolver call failed validation reports no gimbal
\* command.
C8_NoCommandAfterFailedValidation == ~(ResolverFailedValidation /\ CommandReported)

\* the gimbal commands in the output of the current iteration
CommandLines == {k \in DOMAIN console : console[k].text = "Calculated Gimbal Command"}

\* C19: every polling cycle produces exactly one gimbal command: when the
\* loop body has run to the display of its results, the iteration has
\* written one command.
C19_OneCommandPerCycle ==
    (pc = "main_show") => Cardinality(CommandLines) = 1

\* the lines the resolver wrote in the current iteration: each call writes
\* either its validation error or its debug output
ResolverLines ==
    {k \in DOMAIN console :
        console[k].text \in {"Error: Invalid image dimensions or FOV for angle calculation.",
                             "Calculated Target Cloud (Az, P)"}}

\* C30: when the loop body has run to the display of its results, an
\* iteration with targets has called the resolver exactly once, with the aim
\* pixel of the first target of the ranked list, whose severity no target of
\* the frame exceeds; an iteration without targets has not called it.
C30_ResolverCalledOnceOnPrimaryTarget ==
    (pc = "main_show") =>
        IF spray_targets # <<>>
        THEN /\ Cardinality(ResolverLines) = 1
             /\ gimbal_args.target_pixel_coords = spray_targets[1].final_pixel_aim_point
             /\ \A t \in DOMAIN spray_targets :
                    RLe(spray_targets[t].estimated_severity,
                        spray_targets[1].estimated_severity)
        ELSE /\ ResolverLines = {}
             /\ gimbal_args = NoArgs

\* the resolver was called on the more severe of two targets, the one that
\* was formed second
C30_Witness ==
    /\ pc = "main_show"
    /\ Len(spray_targets) = 2
    /\ spray_targets[1].id = 1
    /\ RGt(spray_targets[1].estimated_severity, spray_targets[2].estimated_severity)
    /\ spray_targets[1].final_pixel_aim_point # spray_targets[2].final_pixel_aim_point
    /\ gimbal_args.target_pixel_coords = spray_targets[1].final_pixel_aim_point
    /\ Cardinality(ResolverLines) = 1

\* the current iteration could not obtain a frame
FrameFailed ==
    \E k \in DOMAIN console :
        console[k].text = "Error: Could not generate temperature matrix from image."

\* C25: a failed frame abandons only its iteration: it yields no hot spots,
\* no targets and no gimbal command, and the polling loop is not terminated
\* by it.
C25_FailedFrameOnlyAbandonsIteration ==
    FrameFailed =>
        /\ hot_spots = <<>>
        /\ spray_targets = <<>>
        /\ ~CommandReported
        /\ pc # "main_terminated"

---------------------------------------------------------------------------
(* Specification of the segmenter: one call of detectAndFilterHotspots, of *)
(* either build, on an arbitrary temperature matrix and camera matrix.     *)
(* params holds what the call reads besides its arguments: the threshold   *)
(* and the minimum area (the constants of utils.h, or the globals of the   *)
(* configured build).                                                      *)

MaxRegions == 2
RegionAreas == {R(20), R(30), R(40)}
RegionCentroids == {<<R(320), R(240)>>, <<R(100), R(50)>>}
RegionTemperatures == {R(240), R(250), R(260)}
Backgrounds == {R(20), R(260)}
FieldSizes == {<<288, 384>>, <<480, 640>>}
OtherTypes == {"CV_8UC1", "CV_32FC3"}

SegmentRegions ==
    {Region(a, c, t) : a \in RegionAreas, c \in RegionCentroids, t \in RegionTemperatures}
RegionLists == UNION {[1..n -> SegmentRegions] : n \in 0..MaxRegions}

\* single-channel float matrices, matrices of another element type, and
\* the empty matrix
SegmentFields ==
    {Matrix("CV_32FC1", size[1], size[2], b, f) :
        size \in FieldSizes, b \in Backgrounds, f \in RegionLists}
    \cup {Matrix(type, 288, 384, R(20), f) : type \in OtherTypes, f \in RegionLists}
    \cup {Matrix(type, 0, 0, Zero, <<>>) : type \in {"CV_32FC1", "CV_8UC1"}}

\* valid intrinsics, no matrix, fx = 0, fy = 0
SegmentCams ==
    {DefaultCam, EmptyMat,
     CamMat(Zero, R(500), R(320), R(240)), CamMat(R(500), Zero, R(320), R(240))}

\* <<temperature_threshold, min_hotspot_area_pixels>> of a configuration file
ConfiguredLimits == {<<R(250), R(30)>>, <<R(240), R(20)>>}

SegmentParams(cam, threshold, min_area) ==
    [camera_matrix |-> cam, temperature_threshold |-> threshold,
     min_hotspot_area_pixels |-> min_area]

InitSegment ==
    /\ temperature_matrix \in SegmentFields
    /\ \E cam \in SegmentCams :
           \/ /\ pc = "segment_call"
              /\ params = SegmentParams(cam, R(FIRE_TEMPERATURE_THRESHOLD_CELSIUS),
                                        R(MIN_HOTSPOT_AREA_PIXELS))
           \/ /\ pc = "segment_call_configured"
              /\ \E limits \in ConfiguredLimits :
                     params = SegmentParams(cam, limits[1], limits[2])
    /\ hot_spots = <<>>
    /\ max_grouping_distance = Zero
    /\ spray_targets = <<>>
    /\ gimbal_args = NoArgs
    /\ angles = NoAngles
    /\ console = <<>>

\* what detectAndFilterHotspots writes to std::cerr
SegmenterErrorOutput(temp_matrix) ==
    IF MalformedMatrix(temp_matrix)
    THEN <<Line("Error: Temperature matrix is empty or not CV_32FC1 type.", NoAngles)>>
    ELSE <<>>

\* what the configured build writes to std::cerr
SegmenterErrorOutputConfigured(temp_matrix, camera_matrix_param) ==
    IF MalformedMatrix(temp_matrix)
    THEN <<Line("Error: Temperature matrix is empty or not CV_32FC1 type.", NoAngles)>>
    ELSE IF InvalidCameraMatrix(camera_matrix_param)
    THEN <<Line("Error: Invalid camera matrix provided.", NoAngles)>>
    ELSE <<>>

CallDetectAndFilterHotspots ==
    /\ pc = "segment_call"
    /\ hot_spots' = detectAndFilterHotspots(temperature_matrix, params.camera_matrix,
                                            ASSUMED_DISTANCE_TO_FIRE_PLANE_METERS)
    /\ console' = SegmenterErrorOutput(temperature_matrix)
    /\ pc' = "segment_done"
    /\ UNCHANGED <<max_grouping_distance, spray_targets, gimbalVars, params,
                   temperature_matrix>>

CallDetectAndFilterHotspotsConfigured ==
    /\ pc = "segment_call_configured"
    /\ hot_spots' = detectAndFilterHotspotsConfigured(
                        temperature_matrix, params.camera_matrix,
                        ASSUMED_DISTANCE_TO_FIRE_PLANE_METERS,
                        params.temperature_threshold, params.min_hotspot_area_pixels)
    /\ console' = SegmenterErrorOutputConfigured(temperature_matrix, params.camera_matrix)
    /\ pc' = "segment_done_configured"
    /\ UNCHANGED <<max_grouping_distance, spray_targets, gimbalVars, params,
                   temperature_matrix>>

NextSegment ==
    \/ CallDetectAndFilterHotspots
    \/ CallDetectAndFilterHotspotsConfigured

SpecSegment == InitSegment /\ [][NextSegment]_vars

---------------------------------------------------------------------------
(* Properties of the segmenter, read when the call has returned.           *)

SegmentDone == pc \in {"segment_done", "segment_done_configured"}

\* the call got as far as the threshold: the matrix is a non-empty
\* single-channel float matrix and, in the configured build, the camera
\* matrix is a 3 x 3 matrix
SegmenterRan ==
    /\ ~temperature_matrix.empty
    /\ temperature_matrix.type = "CV_32FC1"
    /\ (pc = "segment_done_configured") =>
           (/\ ~params.camera_matrix.empty
            /\ params.camera_matrix.rows = 3
            /\ params.camera_matrix.cols = 3)

ColdBackground == RLt(temperature_matrix.background, params.temperature_threshold)

\* hot spot k was made of region r
SpotOfRegion(spot, r) ==
    /\ spot.pixel_centroid = r.centroid
    /\ spot.area_pixels = r.area
    /\ spot.max_temperature = r.temperature

RegionReturned(r) ==
    \E k \in DOMAIN hot_spots : SpotOfRegion(hot_spots[k], r)

\* C13: when no sample of the matrix, background or region, is greater than
\* or equal to the threshold, the call returns the empty list, whatever the
\* size of the matrix and the camera matrix.
C13_NoSampleAtOrAboveThresholdGivesEmpty ==
    (/\ SegmentDone
     /\ ColdBackground
     /\ \A k \in DOMAIN temperature_matrix.regions :
            RLt(temperature_matrix.regions[k].temperature, params.temperature_threshold))
        => hot_spots = <<>>

\* two regions of sufficient area, all samples below the threshold, a call
\* that got as far as the threshold: nothing is returned
C13_Witness ==
    /\ SegmentDone
    /\ SegmenterRan
    /\ ColdBackground
    /\ Len(temperature_matrix.regions) = 2
    /\ \A k \in DOMAIN temperature_matrix.regions :
           /\ RLt(temperature_matrix.regions[k].temperature, params.temperature_threshold)
           /\ RLe(params.min_hotspot_area_pixels, temperature_matrix.regions[k].area)
    /\ hot_spots = <<>>

\* C14 as stated: the mask is set exactly where the sample is greater than
\* or equal to the threshold, so over a background below the threshold the
\* regions returned are exactly those of sufficient area whose samples are
\* greater than or equal to the threshold.
C14_SampleAtThresholdIsForeground ==
    (SegmentDone /\ SegmenterRan /\ ColdBackground) =>
        /\ \A k \in DOMAIN temperature_matrix.regions :
               LET r == temperature_matrix.regions[k]
               IN (/\ RLe(params.temperature_threshold, r.temperature)
                   /\ RLe(params.min_hotspot_area_pixels, r.area))
                      <=> RegionReturned(r)
        /\ \A k \in DOMAIN hot_spots :
               \E j \in DOMAIN temperature_matrix.regions :
                   SpotOfRegion(hot_spots[k], temperature_matrix.regions[j])

\* C14 as amended: the mask is set exactly where the sample is strictly
\* greater than the threshold, so over a background below the threshold the
\* regions returned are exactly those of sufficient area whose samples are
\* strictly above the threshold; a region of samples equal to the threshold
\* yields no hot spot.
C14_SampleAboveThresholdIsForeground ==
    (SegmentDone /\ SegmenterRan /\ ColdBackground) =>
        /\ \A k \in DOMAIN temperature_matrix.regions :
               LET r == temperature_matrix.regions[k]
               IN (/\ RLt(params.temperature_threshold, r.temperature)
                   /\ RLe(params.min_hotspot_area_pixels, r.area))
                      <=> RegionReturned(r)
        /\ \A k \in DOMAIN hot_spots :
               \E j \in DOMAIN temperature_matrix.regions :
                   SpotOfRegion(hot_spots[k], temperature_matrix.regions[j])

\* a large region at exactly the threshold next to a large region above it:
\* only the second is returned
C14_Witness ==
    /\ SegmentDone
    /\ SegmenterRan
    /\ ColdBackground
    /\ Len(temperature_matrix.regions) = 2
    /\ temperature_matrix.regions[1].temperature = params.temperature_threshold
    /\ RLt(params.min_hotspot_area_pixels, temperature_matrix.regions[1].area)
    /\ RLt(params.temperature_threshold, temperature_matrix.regions[2].temperature)
    /\ RLt(params.min_hotspot_area_pixels, temperature_matrix.regions[2].area)
    /\ Len(hot_spots) = 1
    /\ SpotOfRegion(hot_spots[1], temperature_matrix.regions[2])

\* C15: every hot spot returned has an area of at least the minimum, and a
\* region above the threshold whose area is exactly the minimum is returned.
C15_ReturnedAreasAtLeastMinimum ==
    SegmentDone =>
        /\ \A k \in DOMAIN hot_spots :
               RLe(params.min_hotspot_area_pixels, hot_spots[k].area_pixels)
        /\ (SegmenterRan /\ ColdBackground) =>
               \A k \in DOMAIN temperature_matrix.regions :
                   LET r == temperature_matrix.regions[k]
                   IN (/\ RLt(params.temperature_threshold, r.temperature)
                       /\ r.area = params.min_hotspot_area_pixels)
                          => RegionReturned(r)

\* a region below the minimum area is dropped and one of exactly the
\* minimum area is returned, both above the threshold
C15_Witness ==
    /\ SegmentDone
    /\ SegmenterRan
    /\ ColdBackground
    /\ Len(temperature_matrix.regions) = 2
    /\ RLt(params.temperature_threshold, temperature_matrix.regions[1].temperature)
    /\ RLt(temperature_matrix.regions[1].area, params.min_hotspot_area_pixels)
    /\ RLt(params.temperature_threshold, temperature_matrix.regions[2].temperature)
    /\ temperature_matrix.regions[2].area = params.min_hotspot_area_pixels
    /\ Len(hot_spots) = 1
    /\ SpotOfRegion(hot_spots[1], temperature_matrix.regions[2])

\* C16: an empty matrix, or one that is not a single-channel 32-bit float
\* matrix, yields the empty list and nothing but the error message.
C16_MalformedFieldGivesEmpty ==
    (SegmentDone /\ (temperature_matrix.empty \/ temperature_matrix.type # "CV_32FC1")) =>
        /\ hot_spots = <<>>
        /\ console =
               <<Line("Error: Temperature matrix is empty or not CV_32FC1 type.", NoAngles)>>

\* an 8-bit matrix with a large region above the threshold and a valid
\* camera matrix: nothing is returned
C16_Witness ==
    /\ SegmentDone
    /\ ~temperature_matrix.empty
    /\ temperature_matrix.type = "CV_8UC1"
    /\ params.camera_matrix = DefaultCam
    /\ \E k \in DOMAIN temperature_matrix.regions :
           /\ RLt(params.temperature_threshold, temperature_matrix.regions[k].temperature)
           /\ RLt(params.min_hotspot_area_pixels, temperature_matrix.regions[k].area)
    /\ hot_spots = <<>>

\* id, centroid, area and peak temperature of each hot spot of a list
RegionFeatures(spots) ==
    [k \in DOMAIN spots |->
        <<spots[k].id, spots[k].pixel_centroid, spots[k].area_pixels,
          spots[k].max_temperature>>]

\* what the same call returns for the same matrix with valid intrinsics
WithValidIntrinsics ==
    IF pc = "segment_done_configured"
    THEN detectAndFilterHotspotsConfigured(temperature_matrix, DefaultCam,
                                           ASSUMED_DISTANCE_TO_FIRE_PLANE_METERS,
                                           params.temperature_threshold,
                                           params.min_hotspot_area_pixels)
    ELSE detectAndFilterHotspots(temperature_matrix, DefaultCam,
                                 ASSUMED_DISTANCE_TO_FIRE_PLANE_METERS)

\* C17: with an empty or zero-focal camera matrix the call returns the same
\* regions (ids, centroids, areas, peak temperatures) as with valid
\* intrinsics, every world position carrying Z = 0.
C17_InvalidIntrinsicsKeepRegions ==
    (SegmentDone /\ (params.camera_matrix.empty \/ params.camera_matrix.fx = Zero)) =>
        /\ RegionFeatures(hot_spots) = RegionFeatures(WithValidIntrinsics)
        /\ \A k \in DOMAIN hot_spots : hot_spots[k].world_coord_approx[3] = Zero

Finite(x) == x[2] # 0

\* C18: each world position is (px, py, 0) when the camera matrix is empty
\* or fx or fy is zero, and otherwise X = (px - cx) * Z / fx,
\* Y = (py - cy) * Z / fy with Z the plane distance; no coordinate is the
\* result of a division by zero.
C18_ProjectionGuardsBothFocalLengths ==
    SegmentDone =>
        \A k \in DOMAIN hot_spots :
            LET cam == params.camera_matrix
                px == hot_spots[k].pixel_centroid[1]
                py == hot_spots[k].pixel_centroid[2]
                w == hot_spots[k].world_coord_approx
                Z == ASSUMED_DISTANCE_TO_FIRE_PLANE_METERS
            IN /\ Finite(w[1]) /\ Finite(w[2]) /\ Finite(w[3])
               /\ IF cam.empty \/ cam.fx = Zero \/ cam.fy = Zero
                  THEN w = <<px, py, Zero>>
                  ELSE /\ RMul(w[1], cam.fx) = RMul(RSub(px, cam.cx), Z)
                       /\ RMul(w[2], cam.fy) = RMul(RSub(py, cam.cy), Z)
                       /\ w[3] = Z

\* C24: the hot spots returned carry the ids 0, 1, ..., n - 1, each equal to
\* its index in the returned list, also when regions before them were
\* discarded.
C24_IdsAreListIndices ==
    SegmentDone => \A k \in DOMAIN hot_spots : hot_spots[k].id = k - 1

\* the first region, above the threshold, is discarded for its area; the
\* second is returned with id 0
C24_Witness ==
    /\ SegmentDone
    /\ SegmenterRan
    /\ ColdBackground
    /\ Len(temperature_matrix.regions) = 2
    /\ RLt(params.temperature_threshold, temperature_matrix.regions[1].temperature)
    /\ RLt(temperature_matrix.regions[1].area, params.min_hotspot_area_pixels)
    /\ temperature_matrix.regions[1].centroid # temperature_matrix.regions[2].centroid
    /\ Len(hot_spots) = 1
    /\ hot_spots[1].id = 0
    /\ hot_spots[1].pixel_centroid = temperature_matrix.regions[2].centroid

=============================================================================
